---- MODULE Spec2Model ----
(***************************************************************************)
(* A model of ubuntu_reblance_disk_usage.py: the scan of /home for large   *)
(* directories, the operator's selection, the capacity check, the mount,   *)
(* the per-directory transfer / verification / relink loop and the fstab   *)
(* update.  External commands (mount, rsync, diff, rm, tee) and file       *)
(* system queries are the environment: each call draws its outcome from    *)
(* the outcomes subprocess.run / pathlib can produce.                      *)
(*                                                                         *)
(* Strings and paths are sequences of tokens; "/" separates the path       *)
(* components, so os.path.join, Path.name and "is under" are computed on   *)
(* the text.  A byte count is a record [kb, rem] standing for              *)
(* kb * 1024 + rem with rem < 1024, so that // 1024 is computed exactly on *)
(* sizes above 2^31 bytes.                                                 *)
(***************************************************************************)
EXTENDS Integers, Sequences, FiniteSets, TLC

\* ------------------------------------------------------------ constants

\* bytes per KB, and KB per MB
KB == 1024

\* main's configuration
min_dir_size_mb == 1000
DefaultLimit == 10
drive == <<"/dev/nvme0n1p1">>
mount_point == <<"/mnt/temp">>

\* the root of the scan
HomeRoot == <<"/home">>

\* ------------------------------------------------------------ bounds

\* update_fstab is called at most this many times in SpecFstab
MaxCalls == 2
\* the initial fstab of SpecFstab is made of at most this many fragments
MaxFrag == 2
\* the display limits given to prompt_directory_move in SpecPrompt are 0..MaxLimit
MaxLimit == 3

\* ------------------------------------------------------------ paths

\* os.path.join(root, dir) and Path(a) / b
JoinPath(root, name) == root \o <<"/", name>>

\* Path(p).name: the final component
BaseName(p) == p[Len(p)]

\* p is d or lies in the tree below d
IsUnder(p, d) ==
    /\ Len(p) >= Len(d)
    /\ SubSeq(p, 1, Len(d)) = d
    /\ (Len(p) > Len(d) => p[Len(d) + 1] = "/")

\* the order in which a directory listing yields its entries
NameOrder == <<"a", "data">>

\* the directories a tree under /home may hold: /home/a, /home/a/data and
\* /home/data (a nested pair, and two directories of one base name)
AllDirs ==
    { JoinPath(HomeRoot, "a"), JoinPath(JoinPath(HomeRoot, "a"), "data"),
      JoinPath(HomeRoot, "data") }

ParentOf(p) == SubSeq(p, 1, Len(p) - 2)

\* the sets of directories that are trees: every directory's parent is there
Trees ==
    { S \in SUBSET AllDirs : \A p \in S : ParentOf(p) = HomeRoot \/ ParentOf(p) \in S }

\* ------------------------------------------------------------ byte counts

Bytes(k, r) == [kb |-> k, rem |-> r]

RECURSIVE SumKb(_, _)
SumKb(f, S) ==
    IF S = {} THEN 0
    ELSE LET x == CHOOSE y \in S : TRUE IN f[x].own.kb + SumKb(f, S \ {x})

RECURSIVE SumRem(_, _)
SumRem(f, S) ==
    IF S = {} THEN 0
    ELSE LET x == CHOOSE y \in S : TRUE IN f[x].own.rem + SumRem(f, S \ {x})

\* sum(sizes in bytes) // 1024
FloorKb(f, S) == SumKb(f, S) + (SumRem(f, S) \div KB)

\* the sizes of the regular files directly in one directory, around a
\* threshold of t MB: none, exactly t MB, t MB and 1023 bytes, t MB and 1 KB,
\* and half of t MB and 512 bytes
OwnSizes(t) ==
    { Bytes(0, 0), Bytes(t * KB, 0), Bytes(t * KB, KB - 1), Bytes(t * KB + 1, 0),
      Bytes((t * KB) \div 2, KB \div 2) }

\* ------------------------------------------------------------ state

VARIABLES
    tree,            \* the directories under /home: path -> [own, err]
    min_size_mb,     \* find_large_directories' threshold
    pc,              \* where the run is
    large_dirs,      \* find_large_directories' result: <<path, size>> pairs
    limit,           \* prompt_directory_move's limit
    idx,             \* prompt_directory_move's position in dir_info[:limit]
    shown,           \* the candidates prompted for so far, in order
    dirs_to_move,    \* prompt_directory_move's result so far
    selected_dirs,   \* main's selected_dirs
    total_required,  \* main's total_required (KB), -1 before it is computed
    available,       \* source_space['available'] (KB), -1 before it is read
    k,               \* main's loop position in selected_dirs
    log,             \* the commands and file operations issued, with outcomes
    removed,         \* paths whose original content was removed or replaced
    links,           \* the symlinks created: <<link, target>>
    mirrored,        \* <<destination, source>>: the last real rsync into it
    fstab,           \* the text of /etc/fstab
    fstab0,          \* the text of /etc/fstab before the first call
    fargs,           \* update_fstab's arguments <<drive, mount_point>>
    calls,           \* what the update_fstab calls made so far returned
    appends          \* the number of appends to /etc/fstab made

vars ==
    << tree, min_size_mb, pc, large_dirs, limit, idx, shown, dirs_to_move,
       selected_dirs, total_required, available, k, log, removed, links,
       mirrored, fstab, fstab0, fargs, calls, appends >>

\* ------------------------------------------------------------ the scan

\* the directories of tr at or below d
Below(tr, d) == { p \in DOMAIN tr : IsUnder(p, d) }

\* calculate_dir_size: the KB of the regular files below directory, or None
\* (ok = FALSE) when a stat below it raises OSError
calculate_dir_size(tr, directory) ==
    IF \E p \in Below(tr, directory) : tr[p].err
    THEN [ok |-> FALSE, kb |-> 0]
    ELSE [ok |-> TRUE, kb |-> FloorKb(tr, Below(tr, directory))]

\* the sub-directories a listing of root yields, in listing order
RECURSIVE ListDirs(_, _, _)
ListDirs(tr, root, i) ==
    IF i > Len(NameOrder) THEN << >>
    ELSE (IF JoinPath(root, NameOrder[i]) \in DOMAIN tr
          THEN << JoinPath(root, NameOrder[i]) >> ELSE << >>)
         \o ListDirs(tr, root, i + 1)

\* os.walk(root), top down: the paths root's listing yields, then the walk of
\* each of them
RECURSIVE Walk(_, _)
RECURSIVE WalkEach(_, _, _)
Walk(tr, root) == ListDirs(tr, root, 1) \o WalkEach(tr, ListDirs(tr, root, 1), 1)
WalkEach(tr, ds, i) ==
    IF i > Len(ds) THEN << >> ELSE Walk(tr, ds[i]) \o WalkEach(tr, ds, i + 1)

\* a threshold that lets the size equal to it through
ExceedsMb_AtLeast(kb, mb) == kb >= mb * KB

\* size_mb = kb / 1024 is kept as its numerator kb: the division is exact and
\* monotone, so size_mb > min_size_mb is kb > min_size_mb * 1024
ExceedsMb(kb, mb) == kb > mb * KB

\* sorted(..., key=size, reverse=True) is stable: x goes after every entry
\* whose size is at least its own
RECURSIVE InsertDesc(_, _)
InsertDesc(x, s) ==
    IF s = << >> THEN << x >>
    ELSE IF s[1][2] >= x[2] THEN << s[1] >> \o InsertDesc(x, Tail(s))
    ELSE << x >> \o s

RECURSIVE SortDesc(_, _)
SortDesc(s, acc) ==
    IF s = << >> THEN acc ELSE SortDesc(Tail(s), InsertDesc(s[1], acc))

\* the loop of find_large_directories over the walk: None / 1024 raises
\* TypeError, which nothing catches
RECURSIVE Collect(_, _, _, _)
Collect(tr, mb, ps, acc) ==
    IF ps = << >> THEN [raised |-> FALSE, value |-> acc]
    ELSE LET sz == calculate_dir_size(tr, ps[1]) IN
         IF ~sz.ok THEN [raised |-> TRUE, value |-> << >>]
         ELSE Collect(tr, mb, Tail(ps),
                      IF ExceedsMb(sz.kb, mb) THEN Append(acc, << ps[1], sz.kb >>) ELSE acc)

find_large_directories(tr, mb) ==
    LET c == Collect(tr, mb, Walk(tr, HomeRoot), << >>) IN
    IF c.raised THEN c ELSE [raised |-> FALSE, value |-> SortDesc(c.value, << >>)]

\* ------------------------------------------------------------ the selection

\* a slice that forgets the limit
Slice_Whole(s, n) == s

\* dir_info[:n], a Python slice: a negative n counts from the end
Slice(s, n) ==
    IF n >= 0 THEN SubSeq(s, 1, IF n < Len(s) THEN n ELSE Len(s))
    ELSE SubSeq(s, 1, IF Len(s) + n > 0 THEN Len(s) + n ELSE 0)

\* what the operator may type at a prompt
Responses == {"y", "n", "Y", "N", "yes", ""}

\* str.lower()
Lower(r) == CASE r = "Y" -> "y" [] r = "N" -> "n" [] OTHER -> r

\* the candidates prompt_directory_move iterates over
Offered == Slice(large_dirs, limit)

\* ------------------------------------------------------------ the fstab

SP == " "
NL == "newline"

\* f"{drive} {mount_point} ext4 defaults 0 2", the entry without its newline
EntryText(d, m) == d \o << SP >> \o m \o << SP, "ext4", SP, "defaults", SP, "0", SP, "2" >>

\* fstab_entry
fstab_entry(d, m) == EntryText(d, m) \o << NL >>

\* the number of occurrences of sub in s
Count(sub, s) ==
    Cardinality({ i \in 1..(Len(s) - Len(sub) + 1) : SubSeq(s, i, i + Len(sub) - 1) = sub })

\* sub in s
Contains(sub, s) ==
    \E i \in 1..(Len(s) - Len(sub) + 1) : SubSeq(s, i, i + Len(sub) - 1) = sub

IsPrefix(s, t) == Len(s) <= Len(t) /\ SubSeq(t, 1, Len(s)) = s

\* the outcomes of subprocess.run: exit status 0, a non-zero exit status, and
\* OSError when the command cannot be started
RunOutcomes == {"ok", "nonzero", "oserror"}

\* the outcomes of a pathlib call
FileOutcomes == {"ok", "oserror"}

\* update_fstab on the text content: rd is read_text's outcome, tee the
\* append's; every exception is caught and gives False
update_fstab(content, d, m, rd, tee) ==
    IF rd # "ok" THEN [content |-> content, ret |-> FALSE, appended |-> FALSE]
    ELSE IF ~Contains(fstab_entry(d, m), content)
    THEN (IF tee = "ok"
          THEN [content |-> content \o fstab_entry(d, m), ret |-> TRUE, appended |-> TRUE]
          ELSE [content |-> content, ret |-> FALSE, appended |-> FALSE])
    ELSE [content |-> content, ret |-> TRUE, appended |-> FALSE]

\* ------------------------------------------------------------ the commands

\* one entry of the log: a command or file operation with its arguments and
\* outcome, a helper's return value, or one of main's log lines
Ev(c, a, b, o) == [cmd |-> c, src |-> a, dst |-> b, out |-> o]

\* subprocess.run(..., check=True) inside try / except CalledProcessError: a
\* non-zero exit status gives False, OSError is not caught
CheckedRun(out) ==
    CASE out = "ok" -> "True" [] out = "nonzero" -> "False" [] OTHER -> "raised"

\* a mount_drive that does not look at verify_mount_point's result
mount_drive_IgnoresMountPoint(d, m, mk, mt) ==
    [events |-> << Ev("mkdir", m, << >>, mk), Ev("mount", d, m, mt) >>,
     ret |-> CheckedRun(mt)]

\* verify_mount_point, then the mount command
mount_drive(d, m, mk, mt) ==
    IF mk # "ok"
    THEN [events |-> << Ev("mkdir", m, << >>, mk) >>, ret |-> "False"]
    ELSE [events |-> << Ev("mkdir", m, << >>, mk), Ev("mount", d, m, mt) >>,
          ret |-> CheckedRun(mt)]

\* the dry run, and the real synchronization when the dry run exits with 0
transfer_directory(source, destination, dry, real) ==
    IF dry # "ok"
    THEN [events |-> << Ev("rsync-dry", source, destination, dry) >>,
          ret |-> CheckedRun(dry)]
    ELSE [events |-> << Ev("rsync-dry", source, destination, dry),
                        Ev("rsync-real", source, destination, real) >>,
          ret |-> CheckedRun(real)]

\* diff -r without check=True: the exit status decides, and OSError is not
\* caught (CalledProcessError, which is, is never raised)
verify_transfer(source, destination, out) ==
    [events |-> << Ev("diff", source, destination, out) >>,
     ret |-> CASE out = "ok" -> "True" [] out = "nonzero" -> "False" [] OTHER -> "raised"]

\* what link_path.is_symlink() / link_path.exists() find, or OSError
LinkKinds == {"symlink", "tree", "absent", "oserror"}

\* create_symlink(source, link_name): every OSError and CalledProcessError is
\* caught and gives False.  gone: the paths whose content the call removed.
create_symlink(source, link_name, kind, rmv, ln) ==
    LET made == << Ev("symlink_to", link_name, source, ln) >>
        ret == IF ln = "ok" THEN "True" ELSE "False"
    IN CASE kind = "oserror" ->
              [events |-> << >>, ret |-> "False", gone |-> {}, linked |-> FALSE]
         [] kind = "symlink" ->
              IF rmv # "ok"
              THEN [events |-> << Ev("unlink", link_name, << >>, "oserror") >>,
                    ret |-> "False", gone |-> {}, linked |-> FALSE]
              ELSE [events |-> << Ev("unlink", link_name, << >>, "ok") >> \o made,
                    ret |-> ret, gone |-> { link_name }, linked |-> ln = "ok"]
         [] kind = "tree" ->
              IF rmv # "ok"
              THEN [events |-> << Ev("rm", link_name, << >>, rmv) >>,
                    ret |-> "False", gone |-> {}, linked |-> FALSE]
              ELSE [events |-> << Ev("rm", link_name, << >>, "ok") >> \o made,
                    ret |-> ret,
                    gone |-> { p \in AllDirs : IsUnder(p, link_name) },
                    linked |-> ln = "ok"]
         [] OTHER ->
              [events |-> made, ret |-> ret, gone |-> {}, linked |-> ln = "ok"]

\* ------------------------------------------------------------ main

\* a destination that keeps the whole path below /home
Destination_FullPath(m, source_dir) == m \o SubSeq(source_dir, 2, Len(source_dir))

\* destination = str(Path(mount_point) / Path(source_dir).name)
Destination(m, source_dir) == JoinPath(m, BaseName(source_dir))

\* sum(calculate_dir_size(d) for d in selected_dirs); a None raises TypeError
RECURSIVE TotalRequired(_, _)
TotalRequired(tr, ds) ==
    IF ds = << >> THEN [ok |-> TRUE, kb |-> 0]
    ELSE LET sz == calculate_dir_size(tr, ds[1])
             rest == TotalRequired(tr, Tail(ds))
         IN IF sz.ok /\ rest.ok THEN [ok |-> TRUE, kb |-> sz.kb + rest.kb]
            ELSE [ok |-> FALSE, kb |-> 0]

\* a capacity check that also refuses an exact fit
InsufficientSpace_AtLeast(required, avail) == required >= avail

\* total_required > source_space['available']
InsufficientSpace(required, avail) == required > avail

\* the free space shutil.disk_usage('/') may report, in bytes
FreeSpace ==
    { Bytes(0, 0), Bytes(min_dir_size_mb * KB + 1, KB - 1),
      Bytes(2 * (min_dir_size_mb * KB + 1), 0), Bytes(8 * (min_dir_size_mb * KB + 1), 0) }

\* a main that relinks whatever verify_transfer returned
StepAfter_IgnoresVerify(here, ret) ==
    CASE ret = "raised" -> "crashed"
      [] here = "verify" -> "relink"
      [] ret = "False" -> "failed"
      [] here = "transfer" -> "verify"
      [] OTHER -> "moved"

\* main's branch after transfer_directory / verify_transfer / create_symlink
\* returned ret at position here: the next step of the same directory, or the
\* failure of this directory
StepAfter(here, ret) ==
    CASE ret = "raised" -> "crashed"
      [] ret = "False" -> "failed"
      [] here = "transfer" -> "verify"
      [] here = "verify" -> "relink"
      [] OTHER -> "moved"

\* the for loop's next position after directory i of n
LoopNext(i, n) == IF i < n THEN "transfer" ELSE "fstab"

\* ------------------------------------------------------------ initial states

\* the trees under /home with file sizes around a threshold of t MB; err marks
\* a directory in which a stat raises OSError
InitTrees(t) ==
    UNION { [S -> [own : OwnSizes(t), err : BOOLEAN]] : S \in Trees }

\* the thresholds find_large_directories is given in SpecScan
Thresholds == {0, 1, 2}

\* the fstab texts main may find
MainFstabs == { << >>, fstab_entry(drive, mount_point) }

\* the devices update_fstab is given in SpecFstab
Drives == { drive, << "/dev/sdb1" >> }

\* the pieces the initial fstab of SpecFstab is made of: entries with and
\* without their newline, a comment sign, and another line
Fragments ==
    { EntryText(d, mount_point) : d \in Drives }
    \cup { fstab_entry(d, mount_point) : d \in Drives }
    \cup { << "#" >>, << "proc", NL >> }

RECURSIVE Texts(_)
Texts(n) ==
    IF n = 0 THEN { << >> }
    ELSE Texts(n - 1) \cup { t \o f : t \in Texts(n - 1), f \in Fragments }

NoRun ==
    /\ idx = 0
    /\ shown = << >>
    /\ dirs_to_move = << >>
    /\ selected_dirs = << >>
    /\ total_required = -1
    /\ available = -1
    /\ k = 1
    /\ log = << >>
    /\ removed = {}
    /\ links = {}
    /\ mirrored = {}
    /\ calls = << >>
    /\ appends = 0

\* main, from its first line
Init ==
    /\ min_size_mb = min_dir_size_mb
    /\ tree \in InitTrees(min_size_mb)
    /\ pc = "start"
    /\ large_dirs = << >>
    /\ limit = DefaultLimit
    /\ fstab \in MainFstabs
    /\ fstab0 = fstab
    /\ fargs = << drive, mount_point >>
    /\ NoRun

\* find_large_directories on any tree and threshold
InitScan ==
    /\ min_size_mb \in Thresholds
    /\ tree \in InitTrees(min_size_mb)
    /\ pc = "start"
    /\ large_dirs = << >>
    /\ limit = DefaultLimit
    /\ fstab = << >>
    /\ fstab0 = fstab
    /\ fargs = << drive, mount_point >>
    /\ NoRun

\* prompt_directory_move on the ranked list of any scan, with any limit
InitPrompt ==
    /\ min_size_mb = min_dir_size_mb
    /\ tree \in { t \in InitTrees(min_size_mb) : \A p \in DOMAIN t : ~t[p].err }
    /\ pc = "prompt"
    /\ large_dirs = find_large_directories(tree, min_size_mb).value
    /\ limit \in 0..MaxLimit
    /\ fstab = << >>
    /\ fstab0 = fstab
    /\ fargs = << drive, mount_point >>
    /\ NoRun

\* update_fstab on any fstab text, called again and again with one device
InitFstab ==
    /\ min_size_mb = min_dir_size_mb
    /\ tree = << >>
    /\ pc = "fstab_calls"
    /\ large_dirs = << >>
    /\ limit = DefaultLimit
    /\ fstab \in Texts(MaxFrag)
    /\ fstab0 = fstab
    /\ fargs \in { << d, mount_point >> : d \in Drives }
    /\ NoRun

\* ------------------------------------------------------------ actions

\* main, lines 151-156: the scan, and the return when nothing is large
ScanStep ==
    /\ pc = "start"
    /\ LET r == find_large_directories(tree, min_size_mb) IN
       /\ large_dirs' = r.value
       /\ pc' = IF r.raised THEN "crashed"
                ELSE IF r.value = << >> THEN "done" ELSE "prompt"
    /\ UNCHANGED << tree, min_size_mb, limit, idx, shown, dirs_to_move, selected_dirs,
                    total_required, available, k, log, removed, links, mirrored,
                    fstab, fstab0, fargs, calls, appends >>

\* prompt_directory_move: the candidate at idx is printed and one line of
\* input is read; anything but y or n is asked again, and an accepted answer
\* is kept in the log
PromptAnswer ==
    /\ pc = "prompt"
    /\ idx < Len(Offered)
    /\ \E r \in Responses :
        /\ shown' = IF Len(shown) = idx THEN Append(shown, Offered[idx + 1][1]) ELSE shown
        /\ IF Lower(r) \in {"y", "n"}
           THEN /\ idx' = idx + 1
                /\ dirs_to_move' = IF Lower(r) = "y"
                                   THEN Append(dirs_to_move, Offered[idx + 1][1])
                                   ELSE dirs_to_move
                /\ log' = Append(log, Ev("answer", Offered[idx + 1][1], << >>, Lower(r)))
           ELSE UNCHANGED << idx, dirs_to_move, log >>
    /\ UNCHANGED << tree, min_size_mb, pc, large_dirs, limit, selected_dirs,
                    total_required, available, k, removed, links, mirrored,
                    fstab, fstab0, fargs, calls, appends >>

\* prompt_directory_move returns dirs_to_move
PromptReturn ==
    /\ pc = "prompt"
    /\ idx = Len(Offered)
    /\ selected_dirs' = dirs_to_move
    /\ pc' = "selected"
    /\ UNCHANGED << tree, min_size_mb, large_dirs, limit, idx, shown, dirs_to_move,
                    total_required, available, k, log, removed, links, mirrored,
                    fstab, fstab0, fargs, calls, appends >>

\* main, lines 161-173: nothing selected, the disk usage, the space required
CheckCapacity ==
    /\ pc = "selected"
    /\ \/ /\ selected_dirs = << >>
          /\ pc' = "done"
          /\ UNCHANGED << total_required, available >>
       \/ /\ selected_dirs # << >>
          /\ pc' = "done"            \* shutil.disk_usage raises OSError
          /\ UNCHANGED << total_required, available >>
       \/ /\ selected_dirs # << >>
          /\ \E free \in FreeSpace :
              LET t == TotalRequired(tree, selected_dirs) IN
              /\ available' = free.kb
              /\ total_required' = IF t.ok THEN t.kb ELSE -1
              /\ pc' = IF ~t.ok THEN "crashed"
                       ELSE IF InsufficientSpace(t.kb, free.kb) THEN "done" ELSE "mount"
    /\ UNCHANGED << tree, min_size_mb, large_dirs, limit, idx, shown, dirs_to_move,
                    selected_dirs, k, log, removed, links, mirrored,
                    fstab, fstab0, fargs, calls, appends >>

\* main, lines 176-177
MountStep ==
    /\ pc = "mount"
    /\ \E mk \in FileOutcomes, mt \in RunOutcomes :
        LET r == mount_drive(drive, mount_point, mk, mt) IN
        /\ log' = log \o r.events \o << Ev("mount_drive", drive, mount_point, r.ret) >>
        /\ pc' = CASE r.ret = "True" -> "transfer"
                   [] r.ret = "False" -> "done"
                   [] OTHER -> "crashed"
    /\ UNCHANGED << tree, min_size_mb, large_dirs, limit, idx, shown, dirs_to_move,
                    selected_dirs, total_required, available, k, removed, links,
                    mirrored, fstab, fstab0, fargs, calls, appends >>

\* where main goes after a step of directory k gave nxt
Continue(nxt) ==
    /\ pc' = CASE nxt \in {"failed", "moved"} -> LoopNext(k, Len(selected_dirs))
               [] OTHER -> nxt
    /\ k' = IF nxt \in {"failed", "moved"} THEN k + 1 ELSE k

\* main's log line for a directory that failed or was moved
Outcome(nxt, source_dir) ==
    IF nxt \in {"failed", "moved"} THEN << Ev(nxt, source_dir, << >>, "") >> ELSE << >>

\* main, lines 179-183: the next directory and its transfer
TransferStep ==
    /\ pc = "transfer"
    /\ LET source_dir == selected_dirs[k]
           destination == Destination(mount_point, source_dir)
       IN \E dry \in RunOutcomes, real \in RunOutcomes :
           LET r == transfer_directory(source_dir, destination, dry, real)
               nxt == StepAfter("transfer", r.ret)
           IN /\ log' = log \o << Ev("processing", source_dir, destination, "") >>
                            \o r.events
                            \o << Ev("transfer_directory", source_dir, destination, r.ret) >>
                            \o Outcome(nxt, source_dir)
              /\ mirrored' = IF r.ret = "True"
                             THEN { m \in mirrored : m[1] # destination }
                                  \cup { << destination, source_dir >> }
                             ELSE mirrored
              /\ Continue(nxt)
    /\ UNCHANGED << tree, min_size_mb, large_dirs, limit, idx, shown, dirs_to_move,
                    selected_dirs, total_required, available, removed, links,
                    fstab, fstab0, fargs, calls, appends >>

\* main, line 184
VerifyStep ==
    /\ pc = "verify"
    /\ LET source_dir == selected_dirs[k]
           destination == Destination(mount_point, source_dir)
       IN \E out \in RunOutcomes :
           LET r == verify_transfer(source_dir, destination, out)
               nxt == StepAfter("verify", r.ret)
           IN /\ log' = log \o r.events
                            \o << Ev("verify_transfer", source_dir, destination, r.ret) >>
                            \o Outcome(nxt, source_dir)
              /\ Continue(nxt)
    /\ UNCHANGED << tree, min_size_mb, large_dirs, limit, idx, shown, dirs_to_move,
                    selected_dirs, total_required, available, removed, links,
                    mirrored, fstab, fstab0, fargs, calls, appends >>

\* main, lines 185-189
RelinkStep ==
    /\ pc = "relink"
    /\ LET source_dir == selected_dirs[k]
           destination == Destination(mount_point, source_dir)
       IN \E kind \in LinkKinds, rmv \in RunOutcomes, ln \in FileOutcomes :
           LET r == create_symlink(destination, source_dir, kind, rmv, ln)
               nxt == StepAfter("relink", r.ret)
           IN /\ log' = log \o << Ev("create_symlink", destination, source_dir, "called") >>
                            \o r.events
                            \o << Ev("create_symlink", destination, source_dir, r.ret) >>
                            \o Outcome(nxt, source_dir)
              /\ removed' = removed \cup (r.gone \cap DOMAIN tree)
              /\ links' = IF r.linked THEN links \cup { << source_dir, destination >> }
                          ELSE links
              /\ Continue(nxt)
    /\ UNCHANGED << tree, min_size_mb, large_dirs, limit, idx, shown, dirs_to_move,
                    selected_dirs, total_required, available,
                    mirrored, fstab, fstab0, fargs, calls, appends >>

\* one call of update_fstab(fargs)
CallUpdateFstab ==
    \E rd \in FileOutcomes, tee \in RunOutcomes :
        LET r == update_fstab(fstab, fargs[1], fargs[2], rd, tee) IN
        /\ fstab' = r.content
        /\ calls' = Append(calls, r.ret)
        /\ appends' = appends + (IF r.appended THEN 1 ELSE 0)

\* main, lines 191-193
FstabStep ==
    /\ pc = "fstab"
    /\ CallUpdateFstab
    /\ pc' = "done"
    /\ UNCHANGED << tree, min_size_mb, large_dirs, limit, idx, shown, dirs_to_move,
                    selected_dirs, total_required, available, k, log, removed, links,
                    mirrored, fstab0, fargs >>

\* update_fstab called once more with the same arguments
FstabCall ==
    /\ pc = "fstab_calls"
    /\ Len(calls) < MaxCalls
    /\ CallUpdateFstab
    /\ UNCHANGED << tree, min_size_mb, pc, large_dirs, limit, idx, shown, dirs_to_move,
                    selected_dirs, total_required, available, k, log, removed, links,
                    mirrored, fstab0, fargs >>

\* ------------------------------------------------------------ specifications

Next ==
    \/ ScanStep
    \/ PromptAnswer
    \/ PromptReturn
    \/ CheckCapacity
    \/ MountStep
    \/ TransferStep
    \/ VerifyStep
    \/ RelinkStep
    \/ FstabStep

Spec == Init /\ [][Next]_vars

NextScan == ScanStep

SpecScan == InitScan /\ [][NextScan]_vars

NextPrompt == PromptAnswer \/ PromptReturn

SpecPrompt == InitPrompt /\ [][NextPrompt]_vars

NextFstab == FstabCall

SpecFstab == InitFstab /\ [][NextFstab]_vars

\* ------------------------------------------------------------ properties

\* the positions of the log that hold command c
At(c) == { i \in DOMAIN log : log[i].cmd = c }

\* helper fn returned ret for directory d before position i of the log
ReturnedBefore(fn, d, ret, i) ==
    \E j \in At(fn) : j < i /\ log[j].src = d /\ log[j].out = ret

\* a step of directory d failed: its transfer or its verification did not
\* return True
StepFailed(d) ==
    \E j \in At("transfer_directory") \cup At("verify_transfer") :
        log[j].src = d /\ log[j].out # "True"

\* create_symlink was called for directory d, or one of its file operations
\* was issued on d
RelinkTouched(d) ==
    \/ \E i \in At("create_symlink") : log[i].dst = d
    \/ \E i \in At("unlink") \cup At("rm") \cup At("symlink_to") : log[i].src = d

\* every call of create_symlink comes after transfer_directory and
\* verify_transfer returned True for the same directory
RelinkGated ==
    \A i \in At("create_symlink") :
        /\ ReturnedBefore("transfer_directory", log[i].dst, "True", i)
        /\ ReturnedBefore("verify_transfer", log[i].dst, "True", i)

\* C1 as stated: create_symlink is invoked for d only after transfer_directory
\* and verify_transfer succeeded for d, and a directory whose transfer or
\* verification fails is never removed or replaced.
C1_RelinkOnlyAfterVerify_Original ==
    /\ RelinkGated
    /\ \A d \in AllDirs : StepFailed(d) => (d \notin removed /\ \A l \in links : l[1] # d)

\* C1, amended: create_symlink is invoked for d only after transfer_directory
\* and verify_transfer returned True for d in the same run; when the transfer
\* or the verification of d fails, create_symlink is never invoked for d and
\* no unlink, rm or symlink_to is issued on d; and whatever is removed lies at
\* or below a directory whose own transfer and verification succeeded.
C1_RelinkOnlyAfterVerify ==
    /\ RelinkGated
    /\ \A d \in AllDirs : StepFailed(d) => ~RelinkTouched(d)
    /\ \A d \in removed :
         \E p \in AllDirs :
            /\ IsUnder(d, p)
            /\ ReturnedBefore("transfer_directory", p, "True", Len(log) + 1)
            /\ ReturnedBefore("verify_transfer", p, "True", Len(log) + 1)

\* C1's case: one directory was relinked and a later one failed its
\* verification
C1_Witness ==
    /\ links # {}
    /\ \E d \in AllDirs : StepFailed(d) /\ d \notin removed
    /\ \E j \in At("verify_transfer") : log[j].out = "False"

\* nothing was mounted, transferred, verified, relinked or persisted
NothingDone ==
    /\ At("mkdir") = {} /\ At("mount") = {}
    /\ At("rsync-dry") = {} /\ At("rsync-real") = {} /\ At("diff") = {}
    /\ At("create_symlink") = {}
    /\ removed = {} /\ links = {} /\ mirrored = {}
    /\ calls = << >> /\ fstab = fstab0

\* C2: once the capacity check has its two numbers, required > available ends
\* the run with nothing mounted, transferred, verified, relinked or persisted,
\* and required <= available takes the run to the mount step.
C2_CapacityGate ==
    (total_required >= 0 /\ available >= 0) =>
        IF total_required > available
        THEN pc = "done" /\ NothingDone
        ELSE pc = "mount" \/ At("mkdir") # {}

\* C2's case: the check aborted a run that needed more than a non-empty disk has
C2_Witness ==
    /\ total_required > available
    /\ available > 0
    /\ pc = "done"

\* C3: when mount_drive does not return True the run is over with nothing
\* transferred, verified, relinked or persisted, and a failed mkdir of the
\* mount point means the mount command is never issued.
C3_MountGate ==
    /\ \A i \in At("mount_drive") :
         log[i].out # "True" =>
            /\ i = Len(log)
            /\ pc \in {"done", "crashed"}
            /\ At("rsync-dry") = {} /\ At("rsync-real") = {} /\ At("diff") = {}
            /\ At("create_symlink") = {}
            /\ removed = {} /\ links = {} /\ mirrored = {}
            /\ calls = << >> /\ fstab = fstab0
    /\ (\E i \in At("mkdir") : log[i].out # "ok") => At("mount") = {}
    /\ pc \in {"transfer", "verify", "relink", "fstab"} =>
         \E i \in At("mount") : log[i].out = "ok"

\* C3's case: the mount command was issued and exited with a non-zero status
C3_Witness ==
    /\ \E i \in At("mount") : log[i].out = "nonzero"
    /\ pc = "done"

\* the directories whose processing began, in order
Processed == [ i \in 1..Cardinality(At("processing")) |->
                 log[CHOOSE j \in At("processing") :
                        Cardinality({ h \in At("processing") : h <= j }) = i].src ]

MountSucceeded == \E i \in At("mount_drive") : log[i].out = "True"

\* C4: once the mount has succeeded the loop processes the approved
\* directories in selection order, no failure of a step ends the run, and
\* the run reaches the fstab update with every approved directory processed
\* exactly once.
C4_FailureIsolation ==
    MountSucceeded =>
        /\ pc # "crashed"
        /\ IsPrefix(Processed, selected_dirs)
        /\ (pc \in {"fstab", "done"} => Processed = selected_dirs)

\* C6: the dry run comes before the real synchronization, and a dry run that
\* fails means that the real one is not issued and that transfer_directory
\* returns False.
C6_DryRunFirst ==
    /\ \A i \in At("rsync-real") :
         /\ i > 1
         /\ log[i - 1] = Ev("rsync-dry", log[i].src, log[i].dst, "ok")
    /\ \A i \in At("rsync-dry") :
         log[i].out # "ok" =>
            /\ i < Len(log)
            /\ log[i + 1] = Ev("transfer_directory", log[i].src, log[i].dst, "False")

\* the part of C6 that the code keeps: no real synchronization without a dry
\* run of the same arguments that exited with 0 right before it
DryRunOrder ==
    \A i \in At("rsync-real") :
        i > 1 /\ log[i - 1] = Ev("rsync-dry", log[i].src, log[i].dst, "ok")

\* the scan returned (it did not raise)
ScanReturned == pc \in {"prompt", "done"}

\* the size the scan gives directory p: the bytes below it in whole KB
SizeKb(p) == FloorKb(tree, Below(tree, p))

\* the result holds exactly the directories above the threshold, each once
\* and with its size
ExactlyTheLarge ==
    /\ \A p \in DOMAIN tree :
         (SizeKb(p) > min_size_mb * KB) <=> (\E i \in DOMAIN large_dirs : large_dirs[i][1] = p)
    /\ \A i \in DOMAIN large_dirs :
         /\ large_dirs[i][1] \in DOMAIN tree
         /\ large_dirs[i][2] = SizeKb(large_dirs[i][1])
         /\ \A j \in DOMAIN large_dirs : large_dirs[j][1] = large_dirs[i][1] => j = i

\* C8 as stated: the result is sorted strictly descending by size and holds
\* exactly the directories whose size exceeds the threshold.
C8_SortedStrictly_Original ==
    ScanReturned =>
        /\ \A i \in 1..(Len(large_dirs) - 1) : large_dirs[i][2] > large_dirs[i + 1][2]
        /\ ExactlyTheLarge

\* C8, amended: the result is sorted descending by size, equal sizes allowed
\* (each entry's size is at least the next entry's), and holds exactly the
\* directories whose size, in whole KB, strictly exceeds the threshold.
C8_SortedDescending ==
    ScanReturned =>
        /\ \A i \in 1..(Len(large_dirs) - 1) : large_dirs[i][2] >= large_dirs[i + 1][2]
        /\ ExactlyTheLarge

\* C8's case: a result with two entries of one size, and a directory left out
\* for a size equal to the threshold
C8_Witness ==
    /\ ScanReturned
    /\ Len(large_dirs) >= 2
    /\ \E i \in 1..(Len(large_dirs) - 1) : large_dirs[i][2] = large_dirs[i + 1][2]
    /\ \E p \in DOMAIN tree : SizeKb(p) = min_size_mb * KB

\* C9: a directory whose size cannot be computed is left out of the result
\* and the scan goes on: the scan returns, with the other large directories.
C9_UnreadableSkipped ==
    pc # "start" =>
        /\ pc # "crashed"
        /\ \A p \in DOMAIN tree :
             ~calculate_dir_size(tree, p).ok =>
                 \A i \in DOMAIN large_dirs : large_dirs[i][1] # p

\* the first n candidates, n >= 0
FirstN(n) == [ i \in 1..(IF n < Len(large_dirs) THEN n ELSE Len(large_dirs)) |-> large_dirs[i][1] ]

\* the operator's accepted answer for path p was yes
SaidYes(p) == \E i \in At("answer") : log[i].src = p /\ log[i].out = "y"

RECURSIVE Approved(_)
Approved(ps) ==
    IF ps = << >> THEN << >>
    ELSE (IF SaidYes(ps[1]) THEN << ps[1] >> ELSE << >>) \o Approved(Tail(ps))

\* C7: the candidates shown are the first ones in ranked order and never more
\* than N of them, never more than N paths are approved, and the result is
\* the candidates among the first N that were answered yes, in ranked order.
C7_SelectorWithinLimit ==
    /\ Len(shown) <= limit
    /\ IsPrefix(shown, FirstN(limit))
    /\ Len(dirs_to_move) <= limit
    /\ pc = "selected" =>
         /\ Len(selected_dirs) <= limit
         /\ shown = FirstN(limit)
         /\ selected_dirs = Approved(FirstN(limit))

\* C7's case: the list is longer than the limit, and the call returned with
\* every candidate it showed approved
C7_Witness ==
    /\ pc = "selected"
    /\ limit > 0
    /\ Len(large_dirs) > limit
    /\ Len(selected_dirs) = limit

\* C10: every transfer goes to the mount point joined with the base name of
\* its source, so directories of one base name share their destination: a
\* real synchronization of one of them rewrites the destination that the
\* symlink of another points to.
C10_DestinationByBaseName ==
    /\ \A i \in At("rsync-dry") \cup At("rsync-real") \cup At("diff") :
         log[i].dst = mount_point \o << "/", log[i].src[Len(log[i].src)] >>
    /\ \A i \in At("rsync-real"), j \in At("rsync-real") :
         log[i].src[Len(log[i].src)] = log[j].src[Len(log[j].src)] => log[i].dst = log[j].dst
    /\ \A l \in links, m \in mirrored :
         l[1][Len(l[1])] = m[2][Len(m[2])] => m[1] = l[2]

\* C10's case: a symlink points to a destination whose last real
\* synchronization came from another directory
C10_Witness ==
    \E l \in links, m \in mirrored : m[1] = l[2] /\ m[2] # l[1]

\* the entry text of the calls, without its newline
Entry == EntryText(fargs[1], fargs[2])

\* C5, for an fstab that holds the entry text at most once before the calls:
\* after two or more calls that returned True the fstab holds exactly one
\* occurrence of the entry text, and nothing is appended to an fstab that
\* holds the entry text already.
C5_ExactlyOneEntry ==
    (Count(Entry, fstab0) <= 1 /\ Len(calls) >= 2 /\ \A i \in DOMAIN calls : calls[i]) =>
        /\ Count(Entry, fstab) = 1
        /\ Count(Entry, fstab0) = 1 => appends = 0

\* what update_fstab does keep: it appends the entry line at most once over
\* any number of calls, and only when the entry text followed by its newline
\* is not in the fstab; what the fstab held stays in front of the append; and
\* once a call has returned True the line is there
AppendsAtMostOnce ==
    /\ appends <= 1
    /\ fstab = (IF appends = 1 THEN fstab0 \o Entry \o << NL >> ELSE fstab0)
    /\ appends = 1 => ~Contains(Entry \o << NL >>, fstab0)
    /\ (\E i \in DOMAIN calls : calls[i]) => Contains(Entry \o << NL >>, fstab)

====
